---- MODULE Spec2Model ----
(***************************************************************************)
(* The credential pool of src/app.py (class AdvancedAPIKeyManager) and the *)
(* tasks that use it (src/app.py main, src/app/agent/manus.py Manus).      *)
(*                                                                         *)
(* Time is the value of time.time() in whole seconds.  A score is kept as  *)
(* an integer number of 1/3600 points, so that (now - last_used) / 3600    *)
(* is exact: score3600 = 3600 * score.                                     *)
(***************************************************************************)
EXTENDS Integers, Sequences, FiniteSets, TLC

VARIABLES
    api_keys,        \* self.api_keys: the list of key configurations
    usage_stats,     \* self.usage_stats: key -> the three windows and the total
    disabled_keys,   \* self.disabled_keys: dict key -> disabled_until
    failure_counts,  \* self.failure_counts: dict key -> consecutive failures
    last_used,       \* self.last_used: dict key -> timestamp or None
    now,             \* time.time()
    ticks,           \* how often the clock has advanced (bounds the model)
    calls,           \* how many record_* calls were made (bounds the model)
    last,            \* the last pool call: its name, argument, result
    pc,              \* per task: where it is in create / think
    task_key,        \* per task: current_key_config['api_key']
    run              \* per task: the run of create / think or of main so far

vars == <<api_keys, usage_stats, disabled_keys, failure_counts, last_used,
          now, ticks, calls, last, pc, task_key, run>>

-----------------------------------------------------------------------------
(* Bounds of the model *)

MaxTicks == 1
MaxCalls == 3
MaxCallsSingle == 5

(* Program constants *)

MinuteHorizon == 60
HourHorizon == 3600
DayHorizon == 86400
DisableDuration == 60
SecondsPerHour == 3600
MaxIdleBonus == 10
FailurePenalty == 2
TopKeys == 3

(* Python's None, for a timestamp that is not set *)
NoneTime == -1

\* how far the clock moves between two calls: inside the minute window, to
\* its edge, past the hour window, past the day window
Deltas == {59, 60, 3600, 86400}

Tasks == {"t1", "t2"}

\* the error_type values Manus.think passes to record_failure
ErrorTypes == {"auth_error", "connection_error", "unknown_error"}

\* record_failure(..., error_type: str = "unknown")
DefaultErrorType == "unknown"

Min(a, b) == IF a < b THEN a ELSE b

-----------------------------------------------------------------------------
(* Configuration *)

KeyConfig(k, p, pm, ph, pd, en) ==
    [api_key |-> k, priority |-> p,
     max_requests_per_minute |-> pm,
     max_requests_per_hour |-> ph,
     max_requests_per_day |-> pd,
     enabled |-> en]

\* one credential with the default limits 5 / 100 / 100 (Scenario A)
ConfigSingle == << KeyConfig("A", 1, 5, 100, 100, TRUE) >>

\* two credentials of priorities 5 and 1 (Scenario B), the first with the
\* tighter minute limit
ConfigPair == << KeyConfig("A", 5, 1, 2, 2, TRUE), KeyConfig("B", 1, 2, 2, 2, TRUE) >>

\* two credentials of equal priority, the first one disabled by the operator
ConfigDisabled == << KeyConfig("A", 1, 2, 2, 2, FALSE), KeyConfig("B", 1, 2, 2, 2, TRUE) >>

Configs == {ConfigPair, ConfigDisabled, ConfigSingle}

KeyIds == {api_keys[i].api_key : i \in 1..Len(api_keys)}

EmptyStats ==
    [requests_this_minute |-> <<>>, requests_this_hour |-> <<>>,
     requests_this_day |-> <<>>, total_requests |-> 0]

\* a Python dict with no entries
EmptyDict == [k \in {} |-> 0]

\* d after d[k] = v
DictSet(d, k, v) == [x \in DOMAIN d \cup {k} |-> IF x = k THEN v ELSE d[x]]

\* what the pool holds about one key; a dict without an entry for the key
\* shows as the empty statistics, no failure, None
KeyState(us, dk, fc, lu, k) ==
    [stats |-> IF k \in DOMAIN us THEN us[k] ELSE EmptyStats,
     failure_count |-> IF k \in DOMAIN fc THEN fc[k] ELSE 0,
     last_used |-> IF k \in DOMAIN lu THEN lu[k] ELSE NoneTime,
     disabled |-> IF k \in DOMAIN dk THEN <<dk[k]>> ELSE <<>>]

NoKeyState ==
    [stats |-> EmptyStats, failure_count |-> 0, last_used |-> NoneTime, disabled |-> <<>>]

\* a record of the last call: pre is the state of the key a record_* call was
\* made on as it was before the call, cleared the keys whose disabled_keys
\* entry the call deleted, status what get_keys_status returned, error_type
\* the third argument of record_failure
Call(op, arg, result) ==
    [op |-> op, arg |-> arg, result |-> result, pre |-> NoKeyState,
     cleared |-> {}, status |-> <<>>, error_type |-> "none"]

RecordCall(op, k) ==
    [Call(op, k, "none") EXCEPT
        !.pre = KeyState(usage_stats, disabled_keys, failure_counts, last_used, k)]

NoCall == Call("none", "none", "none")

\* what the work does each time it is invoked: "ok", "cancelled", or the text
\* of the exception it raises
PlanOk == <<"ok", "ok", "ok">>

\* a task before it has started: entry is "create" (Manus.create, then think)
\* or "main"; manager is whether the agent got self.api_key_manager; attempt
\* is the loop variable of think; works counts the invocations of the work
\* and keys lists the key each one ran with; sleeps counts asyncio.sleep(1);
\* error is the exception think is handling; outcome is how the run ended
\* and raised what it raised to its caller; available is the keys that passed
\* the filter of its first get_available_api_key
\* next_step_prompt of the agent: the class default, and the text
\* format_next_step_prompt gives while the browser tool is in use
OriginalPrompt == "NEXT_STEP_PROMPT"

BrowserPrompt == "browser_prompt"

NoRun ==
    [entry |-> "none", manager |-> FALSE, plan |-> PlanOk, attempt |-> 0,
     works |-> 0, keys |-> <<>>, sleeps |-> 0, error |-> "none",
     outcome |-> "running", raised |-> "none", available |-> {},
     next_step_prompt |-> OriginalPrompt]

\* AdvancedAPIKeyManager.__init__
PoolInit(cfg) ==
    /\ api_keys = cfg
    /\ usage_stats = [k \in {cfg[i].api_key : i \in 1..Len(cfg)} |-> EmptyStats]
    /\ disabled_keys = EmptyDict
    /\ failure_counts = [k \in {cfg[i].api_key : i \in 1..Len(cfg)} |-> 0]
    /\ last_used = [k \in {cfg[i].api_key : i \in 1..Len(cfg)} |-> NoneTime]

Init ==
    /\ \E cfg \in Configs : PoolInit(cfg)
    /\ now = 0
    /\ ticks = 0
    /\ calls = 0
    /\ last = NoCall
    /\ pc = [t \in Tasks |-> "idle"]
    /\ task_key = [t \in Tasks |-> "None"]
    /\ run = [t \in Tasks |-> NoRun]

-----------------------------------------------------------------------------
(* _clean_old_usage_data *)

\* a hit exactly one horizon old is kept
RecentInclusive(s, t, horizon) == SelectSeq(s, LAMBDA x : t - x <= horizon)

Recent(s, t, horizon) == SelectSeq(s, LAMBDA x : t - x < horizon)

CleanOldUsageData(stats, t) ==
    [stats EXCEPT
        !.requests_this_minute = Recent(@, t, MinuteHorizon),
        !.requests_this_hour = Recent(@, t, HourHorizon),
        !.requests_this_day = Recent(@, t, DayHorizon)]

(* _is_key_available: the cooldown test, its side effect, the limits test *)

\* the comparison with disabled_until turned round
InCooldownInverted(dk, k, t) == k \in DOMAIN dk /\ t > dk[k]

InCooldown(dk, k, t) == k \in DOMAIN dk /\ t < dk[k]

CooldownExpired(dk, k, t) == k \in DOMAIN dk /\ ~(t < dk[k])

\* a key that has reached a limit still passes
UnderLimitsOffByOne(key_config, stats) ==
    ~ ( \/ Len(stats.requests_this_minute) > key_config.max_requests_per_minute
        \/ Len(stats.requests_this_hour) > key_config.max_requests_per_hour
        \/ Len(stats.requests_this_day) > key_config.max_requests_per_day )

UnderLimits(key_config, stats) ==
    ~ ( \/ Len(stats.requests_this_minute) >= key_config.max_requests_per_minute
        \/ Len(stats.requests_this_hour) >= key_config.max_requests_per_hour
        \/ Len(stats.requests_this_day) >= key_config.max_requests_per_day )

\* a key with an entry in disabled_keys is not available, expired or not
IsKeyAvailableLate(key_config, dk, us, t) ==
    /\ key_config.api_key \notin DOMAIN dk
    /\ UnderLimits(key_config, CleanOldUsageData(us[key_config.api_key], t))

IsKeyAvailable(key_config, dk, us, t) ==
    /\ ~InCooldown(dk, key_config.api_key, t)
    /\ UnderLimits(key_config, CleanOldUsageData(us[key_config.api_key], t))

\* the keys of `checked` that `del self.disabled_keys[api_key]` removes
Expired(dk, checked, t) == {k \in checked : CooldownExpired(dk, k, t)}

\* every entry of a key in `checked` is deleted
DropChecked(dk, checked, t) == [k \in DOMAIN dk \ checked |-> dk[k]]

\* the dict after `del self.disabled_keys[api_key]` for every key in `checked`
DropExpired(dk, checked, t) ==
    [k \in DOMAIN dk \ Expired(dk, checked, t) |-> dk[k]]

\* usage_stats after _is_key_available ran on every key in `checked`
CleanChecked(us, dk, checked, t) ==
    [k \in DOMAIN us |->
        IF k \in checked /\ ~InCooldown(dk, k, t)
        THEN CleanOldUsageData(us[k], t) ELSE us[k]]

-----------------------------------------------------------------------------
(* _calculate_key_score, in 1/3600 points *)

\* current_time - self.last_used[api_key] with last_used[api_key] = None
ScoreRaises(key_config, lu) ==
    key_config.api_key \in DOMAIN lu /\ lu[key_config.api_key] = NoneTime

\* the score, or raised = TRUE when the subtraction raises TypeError
CalculateKeyScore(key_config, lu, fc, t) ==
    LET k == key_config.api_key
        bonus == IF k \in DOMAIN lu
                 THEN Min(t - lu[k], MaxIdleBonus * SecondsPerHour)
                 ELSE 0
        penalty == IF k \in DOMAIN fc
                   THEN fc[k] * FailurePenalty * SecondsPerHour
                   ELSE 0
    IN  IF ScoreRaises(key_config, lu)
        THEN [raised |-> TRUE, score |-> 0]
        ELSE [raised |-> FALSE,
              score |-> key_config.priority * SecondsPerHour + bonus - penalty]

(* get_available_api_key *)

\* the configurations on which _is_key_available is called
CheckedBySelect == {api_keys[i].api_key : i \in {j \in 1..Len(api_keys) : api_keys[j].enabled}}

AvailableKeys(cfgs, dk, us, t) ==
    SelectSeq(cfgs, LAMBDA c : c.enabled /\ IsKeyAvailable(c, dk, us, t))

\* scored_keys.sort(key=lambda x: x[2], reverse=True): stable, descending
SortByScore(avail, lu, fc, t) ==
    LET n == Len(avail)
        sc(i) == CalculateKeyScore(avail[i], lu, fc, t).score
        before(i) == Cardinality({j \in 1..n : sc(j) > sc(i) \/ (sc(j) = sc(i) /\ j < i)})
    IN  [p \in 1..n |-> avail[CHOOSE i \in 1..n : before(i) = p - 1]]

\* what the call can return: a key, "None", or the TypeError it raises
SelectResults(use_random, avail, lu, fc, t) ==
    IF avail = <<>> THEN {"None"}
    ELSE IF \E i \in 1..Len(avail) : CalculateKeyScore(avail[i], lu, fc, t).raised
         THEN {"TypeError"}
    ELSE LET scored_keys == SortByScore(avail, lu, fc, t)
         IN  IF use_random /\ Len(avail) > 1
             THEN {scored_keys[i].api_key : i \in 1..Min(TopKeys, Len(scored_keys))}
             ELSE {scored_keys[1].api_key}

ModeName(use_random) == IF use_random THEN "random" ELSE "deterministic"

\* the call and its effect on the pool
SelectCall(use_random) ==
    LET avail == AvailableKeys(api_keys, disabled_keys, usage_stats, now)
    IN  /\ \E r \in SelectResults(use_random, avail, last_used, failure_counts, now) :
              last' = [Call("select", ModeName(use_random), r) EXCEPT
                          !.cleared = Expired(disabled_keys, CheckedBySelect, now)]
        /\ disabled_keys' = DropExpired(disabled_keys, CheckedBySelect, now)
        /\ usage_stats' = CleanChecked(usage_stats, disabled_keys, CheckedBySelect, now)
        /\ UNCHANGED <<api_keys, failure_counts, last_used, now, ticks, calls>>

GetAvailableApiKey(use_random) ==
    /\ SelectCall(use_random)
    /\ UNCHANGED <<pc, task_key, run>>

-----------------------------------------------------------------------------
(* record_successful_request, record_rate_limit_error, record_failure *)

RecordHit(stats, t) ==
    [stats EXCEPT
        !.requests_this_minute = Append(@, t),
        !.requests_this_hour = Append(@, t),
        !.requests_this_day = Append(@, t),
        !.total_requests = @ + 1]

StatsAfterSuccess(us, k, t) ==
    IF k \in DOMAIN us THEN [us EXCEPT ![k] = RecordHit(@, t)] ELSE us

\* the failure count is not reset
FailuresKept(fc, k) == fc

FailuresAfterSuccess(fc, k) ==
    IF k \in DOMAIN fc THEN [fc EXCEPT ![k] = 0] ELSE fc

\* a cooldown that is already set is left as it is
DisableKeyKeepExisting(dk, k, t) ==
    IF k \in DOMAIN dk THEN dk ELSE DictSet(dk, k, t + DisableDuration)

DisableKeyForRateLimit(dk, k, t) == DictSet(dk, k, t + DisableDuration)

\* the count is set to 1
FailuresFromOne(fc, k, error_type) == DictSet(fc, k, 1)

\* an authentication failure adds two
FailuresAuthCountsDouble(fc, k, error_type) ==
    IF k \in DOMAIN fc
    THEN [fc EXCEPT ![k] = @ + (IF error_type = "auth_error" THEN 2 ELSE 1)]
    ELSE DictSet(fc, k, 1)

\* error_type is only written to the log
FailuresAfterFailure(fc, k, error_type) ==
    IF k \in DOMAIN fc THEN [fc EXCEPT ![k] = @ + 1] ELSE DictSet(fc, k, 1)

\* the call and its effect on the pool
RecordSuccessCall(k) ==
    /\ usage_stats' = StatsAfterSuccess(usage_stats, k, now)
    /\ last_used' = DictSet(last_used, k, now)
    /\ failure_counts' = FailuresAfterSuccess(failure_counts, k)
    /\ last' = RecordCall("record_success", k)
    /\ calls' = calls + 1
    /\ UNCHANGED <<api_keys, disabled_keys, now, ticks>>

RecordSuccessfulRequest(k) ==
    /\ RecordSuccessCall(k)
    /\ UNCHANGED <<pc, task_key, run>>

\* the call and its effect on the pool
RecordRateLimitCall(k) ==
    /\ disabled_keys' = DisableKeyForRateLimit(disabled_keys, k, now)
    /\ last' = RecordCall("record_rate_limited", k)
    /\ calls' = calls + 1
    /\ UNCHANGED <<api_keys, usage_stats, failure_counts, last_used, now, ticks>>

RecordRateLimitError(k) ==
    /\ RecordRateLimitCall(k)
    /\ UNCHANGED <<pc, task_key, run>>

\* the call and its effect on the pool
RecordFailureCall(k, error_type) ==
    /\ failure_counts' = FailuresAfterFailure(failure_counts, k, error_type)
    /\ last' = [RecordCall("record_failure", k) EXCEPT !.error_type = error_type]
    /\ calls' = calls + 1
    /\ UNCHANGED <<api_keys, usage_stats, disabled_keys, last_used, now, ticks>>

RecordFailure(k, error_type) ==
    /\ RecordFailureCall(k, error_type)
    /\ UNCHANGED <<pc, task_key, run>>

-----------------------------------------------------------------------------
(* get_keys_status *)

DictGet(d, k, default) == IF k \in DOMAIN d THEN d[k] ELSE default

\* one entry of status_list; a configuration entry is named by its api_key
StatusOf(key_config, us, dk, dkAfter, t) ==
    LET k == key_config.api_key
        stats == CleanOldUsageData(us[k], t)
    IN  [name |-> k,
         enabled |-> key_config.enabled,
         priority |-> key_config.priority,
         is_available |-> IsKeyAvailable(key_config, dk, us, t),
         requests_this_minute |-> Len(stats.requests_this_minute),
         requests_this_hour |-> Len(stats.requests_this_hour),
         requests_this_day |-> Len(stats.requests_this_day),
         total_requests |-> stats.total_requests,
         failure_count |-> DictGet(failure_counts, k, 0),
         is_disabled |-> k \in DOMAIN dkAfter,
         disabled_until |-> DictGet(dkAfter, k, 0),
         last_used |-> DictGet(last_used, k, 0)]

\* status_list for the pool as it is
KeysStatus(us, dk, t) ==
    [i \in 1..Len(api_keys) |->
        StatusOf(api_keys[i], us, dk, DropExpired(dk, KeyIds, t), t)]

\* the call and its effect on the pool
GetKeysStatusCall ==
    LET dkAfter == DropExpired(disabled_keys, KeyIds, now)
    IN  /\ disabled_keys' = dkAfter
        /\ usage_stats' = [k \in DOMAIN usage_stats |->
                              IF k \in KeyIds THEN CleanOldUsageData(usage_stats[k], now)
                              ELSE usage_stats[k]]
        /\ last' = [Call("status", "none", "none") EXCEPT
                      !.cleared = Expired(disabled_keys, KeyIds, now),
                      !.status = KeysStatus(usage_stats, disabled_keys, now)]
        /\ UNCHANGED <<api_keys, failure_counts, last_used, now, ticks, calls>>

GetKeysStatus ==
    /\ GetKeysStatusCall
    /\ UNCHANGED <<pc, task_key, run>>

-----------------------------------------------------------------------------
(* the clock *)

Tick(d) ==
    /\ now' = now + d
    /\ ticks' = ticks + 1
    /\ last' = Call("tick", "none", "none")
    /\ UNCHANGED <<api_keys, usage_stats, disabled_keys, failure_counts, last_used, calls, pc, task_key, run>>

\* a pool with one credential gets the longer runs that fill its minute window
CallCap == IF Len(api_keys) = 1 THEN MaxCallsSingle ELSE MaxCalls

Next ==
    \/ \E d \in Deltas : ticks < MaxTicks /\ Tick(d)
    \/ \E m \in BOOLEAN : GetAvailableApiKey(m)
    \/ \E k \in KeyIds : calls < CallCap /\ RecordSuccessfulRequest(k)
    \/ \E k \in KeyIds : calls < CallCap /\ RecordRateLimitError(k)
    \/ \E k \in KeyIds : calls < CallCap /\ RecordFailure(k, DefaultErrorType)
    \/ GetKeysStatus

Spec == Init /\ [][Next]_vars

-----------------------------------------------------------------------------
(* The pool as any caller can build and use it: the configuration list may *)
(* name an api_key twice, and the record_* methods take any string.        *)

\* the api_key "A" listed twice, with different priorities and limits
ConfigDuplicate == << KeyConfig("A", 5, 1, 2, 2, TRUE), KeyConfig("A", 1, 2, 2, 2, TRUE) >>

ConfigsAnyCaller == {ConfigPair, ConfigDuplicate}

\* an api_key that no entry of the configuration has
UnknownId == "Z"

CallerIds == KeyIds \cup {UnknownId}

MaxCallsAnyCaller == 2

InitAnyCaller ==
    /\ \E cfg \in ConfigsAnyCaller : PoolInit(cfg)
    /\ now = 0
    /\ ticks = 0
    /\ calls = 0
    /\ last = NoCall
    /\ pc = [t \in Tasks |-> "idle"]
    /\ task_key = [t \in Tasks |-> "None"]
    /\ run = [t \in Tasks |-> NoRun]

NextAnyCaller ==
    \/ \E d \in Deltas : ticks < MaxTicks /\ Tick(d)
    \/ \E m \in BOOLEAN : GetAvailableApiKey(m)
    \/ \E k \in CallerIds : calls < MaxCallsAnyCaller /\ RecordSuccessfulRequest(k)
    \/ \E k \in CallerIds : calls < MaxCallsAnyCaller /\ RecordRateLimitError(k)
    \/ \E k \in CallerIds : calls < MaxCallsAnyCaller /\ RecordFailure(k, DefaultErrorType)
    \/ GetKeysStatus

SpecAnyCaller == InitAnyCaller /\ [][NextAnyCaller]_vars

-----------------------------------------------------------------------------
(* Tasks that share the pool: Manus.create takes a key, Manus.think runs   *)
(* the work (await super().think()) and records how it went; main takes a  *)
(* key, records a success and runs the work (await manus.run(prompt)).     *)

\* the pool after every key has served `used` requests at time 0, or as
\* many as its minute limit allows
PoolUsed(cfg, used) ==
    LET ids == {cfg[i].api_key : i \in 1..Len(cfg)}
        limit(k) == cfg[CHOOSE i \in 1..Len(cfg) : cfg[i].api_key = k].max_requests_per_minute
        hits(k) == [i \in 1..Min(used, limit(k)) |-> 0]
    IN  /\ api_keys = cfg
        /\ usage_stats = [k \in ids |->
              [requests_this_minute |-> hits(k), requests_this_hour |-> hits(k),
               requests_this_day |-> hits(k), total_requests |-> Len(hits(k))]]
        /\ disabled_keys = EmptyDict
        /\ failure_counts = [k \in ids |-> 0]
        /\ last_used = [k \in ids |-> IF used = 0 THEN NoneTime ELSE 0]

InitTasks ==
    /\ \E cfg \in Configs : \E used \in 0..2 : PoolUsed(cfg, used)
    /\ now = 0
    /\ ticks = 0
    /\ calls = 0
    /\ last = NoCall
    /\ pc = [t \in Tasks |-> "idle"]
    /\ task_key = [t \in Tasks |-> "None"]
    /\ run = [t \in Tasks |-> NoRun]

(* the work and the exceptions it raises *)

\* str(e) of the exceptions the work raises
ErrorTexts ==
    {"Rate limit exceeded", "401 Unauthorized", "Connection timeout",
     "Internal error", "Quota exceeded: invalid API key",
     "Unauthorized: connection refused", "Timeout: too many requests"}

\* what the work does at its first, second and third invocation
Plans ==
    {PlanOk, <<"cancelled", "ok", "ok">>}
    \cup {<<e, e, e>> : e \in ErrorTexts}
    \cup {<<"Rate limit exceeded", "ok", "ok">>,
          <<"401 Unauthorized", "Connection timeout", "ok">>,
          <<"Internal error", "cancelled", "ok">>}

\* str.lower
Lower(text) ==
    CASE text = "Rate limit exceeded" -> "rate limit exceeded"
      [] text = "401 Unauthorized" -> "401 unauthorized"
      [] text = "Connection timeout" -> "connection timeout"
      [] text = "Internal error" -> "internal error"
      [] text = "Quota exceeded: invalid API key" -> "quota exceeded: invalid api key"
      [] text = "Unauthorized: connection refused" -> "unauthorized: connection refused"
      [] text = "Timeout: too many requests" -> "timeout: too many requests"
      [] OTHER -> text

\* keyword in error_str: the substring test, case-sensitive
Occurs(keyword, error_str) ==
    <<keyword, error_str>> \in
        {<<"rate limit", "rate limit exceeded">>,
         <<"unauthorized", "401 unauthorized">>,
         <<"connection", "connection timeout">>,
         <<"timeout", "connection timeout">>,
         <<"timeout", "Connection timeout">>,
         <<"quota", "quota exceeded: invalid api key">>,
         <<"invalid api key", "quota exceeded: invalid api key">>,
         <<"unauthorized", "unauthorized: connection refused">>,
         <<"connection", "unauthorized: connection refused">>,
         <<"connection", "Unauthorized: connection refused">>,
         <<"timeout", "timeout: too many requests">>,
         <<"too many requests", "timeout: too many requests">>,
         <<"too many requests", "Timeout: too many requests">>}

RateLimitKeywords == <<"rate limit", "quota", "too many requests", "resource_exhausted">>

AuthKeywords == <<"authentication", "invalid api key", "unauthorized">>

ConnectionKeywords == <<"timeout", "connection">>

\* any(keyword in error_str for keyword in keywords)
AnyKeyword(keywords, error_str) ==
    \E i \in 1..Len(keywords) : Occurs(keywords[i], error_str)

\* the connection keywords are tried before the others
ClassifyConnectionFirst(error_str) ==
    IF AnyKeyword(ConnectionKeywords, error_str) THEN "connection_error"
    ELSE IF AnyKeyword(RateLimitKeywords, error_str) THEN "rate_limited"
    ELSE IF AnyKeyword(AuthKeywords, error_str) THEN "auth_error"
    ELSE "unknown_error"

\* the if / elif chain of think
Classify(error_str) ==
    IF AnyKeyword(RateLimitKeywords, error_str) THEN "rate_limited"
    ELSE IF AnyKeyword(AuthKeywords, error_str) THEN "auth_error"
    ELSE IF AnyKeyword(ConnectionKeywords, error_str) THEN "connection_error"
    ELSE "unknown_error"

RetriesWithManager == 3

RetriesWithoutManager == 1

\* three rounds with or without a pool
MaxRetriesAlwaysThree(r) == RetriesWithManager

\* max_retries = 3 if self.api_key_manager else 1
MaxRetries(r) == IF r.manager THEN RetriesWithManager ELSE RetriesWithoutManager

\* what the work does at its next invocation
NextOutcome(r) == r.plan[r.works + 1]

\* the run after the work has been invoked with key k
Invoked(r, k) == [r EXCEPT !.works = @ + 1, !.keys = Append(@, k)]

\* the run after it has ended
Ended(r, outcome, raised) == [r EXCEPT !.outcome = outcome, !.raised = raised]

\* self.next_step_prompt = original_prompt
Restored(r) == [r EXCEPT !.next_step_prompt = OriginalPrompt]

\* the keys that pass the filter of get_available_api_key
AvailableIds ==
    LET avail == AvailableKeys(api_keys, disabled_keys, usage_stats, now)
    IN  {avail[i].api_key : i \in 1..Len(avail)}

(* Manus.create *)

\* with a key the task goes on to think with it; with None it is built
\* without a pool; the TypeError of the call ends it
ManusCreate(t, plan) ==
    /\ pc[t] = "idle"
    /\ SelectCall(TRUE)
    /\ pc' = [pc EXCEPT ![t] =
                 IF last'.result = "None" THEN "no_pool"
                 ELSE IF last'.result = "TypeError" THEN "raised"
                 ELSE "thinking"]
    /\ task_key' = [task_key EXCEPT ![t] =
                 IF last'.result = "TypeError" THEN "None" ELSE last'.result]
    /\ run' = [run EXCEPT ![t] =
                 LET r == [NoRun EXCEPT !.entry = "create", !.plan = plan,
                                        !.available = AvailableIds,
                                        !.manager = last'.result \notin {"None", "TypeError"}]
                 IN  IF last'.result = "TypeError"
                     THEN Ended(r, "raised", "TypeError") ELSE r]

\* a task whose work succeeds
TaskCreate(t) == ManusCreate(t, PlanOk)

(* Manus.think *)

\* browser_in_use: the prompt is replaced before the first round
ThinkFormatPrompt(t) ==
    /\ pc[t] \in {"thinking", "no_pool"}
    /\ run[t].entry = "create"
    /\ run[t].works = 0
    /\ run[t].next_step_prompt = OriginalPrompt
    /\ run' = [run EXCEPT ![t].next_step_prompt = BrowserPrompt]
    /\ UNCHANGED <<api_keys, usage_stats, disabled_keys, failure_counts, last_used,
                   now, ticks, calls, last, pc, task_key>>

\* the work succeeds: the success is recorded on the key, the result returned
TaskThinkSuccess(t) ==
    /\ pc[t] = "thinking"
    /\ NextOutcome(run[t]) = "ok"
    /\ RecordSuccessCall(task_key[t])
    /\ pc' = [pc EXCEPT ![t] = "done"]
    /\ run' = [run EXCEPT ![t] =
                 Ended(Restored(Invoked(@, task_key[t])), "returned", "none")]
    /\ UNCHANGED task_key

\* without a pool: nothing is recorded
TaskThinkNoPool(t) ==
    /\ pc[t] = "no_pool"
    /\ NextOutcome(run[t]) = "ok"
    /\ pc' = [pc EXCEPT ![t] = "done"]
    /\ run' = [run EXCEPT ![t] = Ended(Restored(Invoked(@, "None")), "returned", "none")]
    /\ last' = Call("none", "none", "none")
    /\ UNCHANGED <<api_keys, usage_stats, disabled_keys, failure_counts, last_used,
                   now, ticks, calls, task_key>>

\* the work raises an Exception: with a pool think goes on to classify it;
\* without one it raises it in the last round and goes to the next round
\* otherwise
ThinkWorkFails(t) ==
    /\ pc[t] \in {"thinking", "no_pool"}
    /\ NextOutcome(run[t]) \in ErrorTexts
    /\ LET last_round == run[t].attempt = MaxRetries(run[t]) - 1
           r == [Invoked(run[t], task_key[t]) EXCEPT !.error = NextOutcome(run[t])]
       IN  /\ pc' = [pc EXCEPT ![t] =
                        IF run[t].manager THEN "classifying"
                        ELSE IF last_round THEN "exhausted" ELSE pc[t]]
           /\ run' = [run EXCEPT ![t] =
                        IF run[t].manager \/ last_round THEN r
                        ELSE [r EXCEPT !.attempt = @ + 1]]
    /\ UNCHANGED <<api_keys, usage_stats, disabled_keys, failure_counts, last_used,
                   now, ticks, calls, last, task_key>>

\* the cancellation is caught like an Exception, with an empty text
ThinkCancelledCaught(t) ==
    /\ pc[t] \in {"thinking", "no_pool"}
    /\ NextOutcome(run[t]) = "cancelled"
    /\ pc' = [pc EXCEPT ![t] = IF run[t].manager THEN "classifying" ELSE "exhausted"]
    /\ run' = [run EXCEPT ![t] = [Invoked(@, task_key[t]) EXCEPT !.error = ""]]
    /\ UNCHANGED <<api_keys, usage_stats, disabled_keys, failure_counts, last_used,
                   now, ticks, calls, last, task_key>>

\* the work is cancelled: asyncio.CancelledError is not an Exception, no
\* handler of think catches it
ThinkCancelled(t) ==
    /\ pc[t] \in {"thinking", "no_pool"}
    /\ NextOutcome(run[t]) = "cancelled"
    /\ pc' = [pc EXCEPT ![t] = "cancelled"]
    /\ run' = [run EXCEPT ![t] =
                 Ended(Invoked(@, task_key[t]), "cancelled", "CancelledError")]
    /\ UNCHANGED <<api_keys, usage_stats, disabled_keys, failure_counts, last_used,
                   now, ticks, calls, last, task_key>>

\* the handler classifies the error and records it on the current key
ThinkRecordError(t) ==
    /\ pc[t] = "classifying"
    /\ LET category == Classify(Lower(run[t].error))
       IN  IF category = "rate_limited"
           THEN RecordRateLimitCall(task_key[t])
           ELSE RecordFailureCall(task_key[t], category)
    /\ pc' = [pc EXCEPT ![t] =
                 IF run[t].attempt < MaxRetries(run[t]) - 1 THEN "rotating" ELSE "exhausted"]
    /\ UNCHANGED <<task_key, run>>

\* any key that is returned is swapped in
RotatesToAny(result, current) == result # "None"

\* if result: ... if new_api_key != current_api_key
RotatesTo(result, current) == result # "None" /\ result # current

\* attempts remain: the handler asks for a key.  A different key is swapped
\* in and the task sleeps; with None or the same key the handler ends and
\* the loop goes on to its next round with the key it has; the TypeError of
\* the call leaves think
ThinkRotate(t) ==
    /\ pc[t] = "rotating"
    /\ SelectCall(TRUE)
    /\ LET result == last'.result
       IN  IF result = "TypeError"
           THEN /\ pc' = [pc EXCEPT ![t] = "raised"]
                /\ run' = [run EXCEPT ![t] = Ended(@, "raised", "TypeError")]
                /\ UNCHANGED task_key
           ELSE IF RotatesTo(result, task_key[t])
           THEN /\ pc' = [pc EXCEPT ![t] = "sleeping"]
                /\ run' = [run EXCEPT ![t].sleeps = @ + 1]
                /\ task_key' = [task_key EXCEPT ![t] = result]
           ELSE /\ pc' = [pc EXCEPT ![t] = "thinking"]
                /\ run' = [run EXCEPT ![t].attempt = @ + 1]
                /\ UNCHANGED task_key

\* await asyncio.sleep(1) returns; continue
ThinkWake(t) ==
    /\ pc[t] = "sleeping"
    /\ pc' = [pc EXCEPT ![t] = "thinking"]
    /\ run' = [run EXCEPT ![t].attempt = @ + 1]
    /\ UNCHANGED <<api_keys, usage_stats, disabled_keys, failure_counts, last_used,
                   now, ticks, calls, last, task_key>>

\* the last round failed: with a pool think reads get_keys_status() and counts
\* the entries k['available'], a key the entries do not have; then the
\* prompt is restored and e raised
ThinkRaise(t) ==
    /\ pc[t] = "exhausted"
    /\ IF run[t].manager
       THEN /\ GetKeysStatusCall
            /\ run' = [run EXCEPT ![t] =
                         IF Len(last'.status) > 0
                         THEN Ended(@, "raised", "KeyError")
                         ELSE Ended(Restored(@), "raised", run[t].error)]
       ELSE /\ run' = [run EXCEPT ![t] = Ended(Restored(@), "raised", run[t].error)]
            /\ UNCHANGED <<api_keys, usage_stats, disabled_keys, failure_counts,
                           last_used, now, ticks, calls, last>>
    /\ pc' = [pc EXCEPT ![t] = "raised"]
    /\ UNCHANGED task_key

(* main (run_flow_task has the same steps) *)

\* get_available_api_key(): None gives the "No available API keys" answer,
\* the TypeError of the call is caught and gives the error answer
MainSelect(t, plan) ==
    /\ pc[t] = "idle"
    /\ SelectCall(TRUE)
    /\ pc' = [pc EXCEPT ![t] =
                 IF last'.result \in {"None", "TypeError"} THEN "done" ELSE "main_selected"]
    /\ task_key' = [task_key EXCEPT ![t] =
                 IF last'.result = "TypeError" THEN "None" ELSE last'.result]
    /\ run' = [run EXCEPT ![t] =
                 LET r == [NoRun EXCEPT !.entry = "main", !.plan = plan,
                                        !.available = AvailableIds]
                 IN  IF last'.result = "None" THEN Ended(r, "no_keys", "none")
                     ELSE IF last'.result = "TypeError" THEN Ended(r, "error_answer", "none")
                     ELSE r]

\* api_key_manager.record_successful_request(api_key), before the work
MainRecord(t) ==
    /\ pc[t] = "main_selected"
    /\ RecordSuccessCall(task_key[t])
    /\ pc' = [pc EXCEPT ![t] = "main_working"]
    /\ UNCHANGED <<task_key, run>>

\* await manus.run(prompt): its result is returned, its Exception caught and
\* turned into the error answer, its cancellation propagates
MainWork(t) ==
    /\ pc[t] = "main_working"
    /\ pc' = [pc EXCEPT ![t] = IF NextOutcome(run[t]) = "cancelled" THEN "cancelled" ELSE "done"]
    /\ run' = [run EXCEPT ![t] =
                 LET r == Invoked(@, task_key[t])
                 IN  IF NextOutcome(run[t]) = "ok" THEN Ended(r, "returned", "none")
                     ELSE IF NextOutcome(run[t]) = "cancelled"
                          THEN Ended(r, "cancelled", "CancelledError")
                     ELSE Ended([r EXCEPT !.error = NextOutcome(run[t])], "error_answer", "none")]
    /\ UNCHANGED <<api_keys, usage_stats, disabled_keys, failure_counts, last_used,
                   now, ticks, calls, last, task_key>>

NextTasks ==
    \/ \E d \in Deltas : ticks < MaxTicks /\ Tick(d)
    \/ \E t \in Tasks : TaskCreate(t)
    \/ \E t \in Tasks : TaskThinkSuccess(t)
    \/ \E t \in Tasks : TaskThinkNoPool(t)

SpecTasks == InitTasks /\ [][NextTasks]_vars

(* One task, whose work can fail or be cancelled *)

Runner == "t1"

\* where a task is suspended and time passes
AwaitPoints == {"idle", "thinking", "no_pool", "sleeping", "main_working"}

TickAtAwait(d) ==
    /\ pc[Runner] \in AwaitPoints
    /\ Tick(d)

NextThink ==
    \/ \E d \in Deltas : ticks < MaxTicks /\ TickAtAwait(d)
    \/ \E plan \in Plans : ManusCreate(Runner, plan)
    \/ ThinkFormatPrompt(Runner)
    \/ TaskThinkSuccess(Runner)
    \/ TaskThinkNoPool(Runner)
    \/ ThinkWorkFails(Runner)
    \/ ThinkCancelled(Runner)
    \/ ThinkRecordError(Runner)
    \/ ThinkRotate(Runner)
    \/ ThinkWake(Runner)
    \/ ThinkRaise(Runner)
    \/ \E plan \in Plans : MainSelect(Runner, plan)
    \/ MainRecord(Runner)
    \/ MainWork(Runner)

SpecThink == InitTasks /\ [][NextThink]_vars

-----------------------------------------------------------------------------
(* Threads that share the pool: process_task runs in a threading.Thread per *)
(* request, the pool has no lock, so the statements of                      *)
(* _clean_old_usage_data and record_successful_request of two threads       *)
(* interleave.  A thread's locals are kept in run.                          *)

Windows == <<"requests_this_minute", "requests_this_hour", "requests_this_day">>

Horizons == <<MinuteHorizon, HourHorizon, DayHorizon>>

MaxCallsThreads == 2

\* the locals of a thread: the window it is at, the list its comprehension
\* has built, its current_time, the total it has read, and the times of the
\* record_successful_request calls it has completed
NoThread ==
    [window |-> 1, filtered |-> <<>>, current_time |-> 0, total |-> 0,
     recorded |-> <<>>]

InitThreads ==
    /\ PoolInit(ConfigSingle)
    /\ now = 0
    /\ ticks = 0
    /\ calls = 0
    /\ last = NoCall
    /\ pc = [t \in Tasks |-> "idle"]
    /\ task_key = [t \in Tasks |-> ConfigSingle[1].api_key]
    /\ run = [t \in Tasks |-> NoThread]

\* _clean_old_usage_data is entered: current_time = time.time()
CleanEnter(t) ==
    /\ pc[t] = "idle"
    /\ pc' = [pc EXCEPT ![t] = "clean_filter"]
    /\ run' = [run EXCEPT ![t].window = 1, ![t].current_time = now]
    /\ UNCHANGED <<api_keys, usage_stats, disabled_keys, failure_counts, last_used,
                   now, ticks, calls, last, task_key>>

\* [t for t in stats[window] if current_time - t < horizon] is evaluated
CleanFilter(t) ==
    /\ pc[t] = "clean_filter"
    /\ LET w == run[t].window
       IN  run' = [run EXCEPT ![t].filtered =
                      Recent(usage_stats[task_key[t]][Windows[w]],
                             run[t].current_time, Horizons[w])]
    /\ pc' = [pc EXCEPT ![t] = "clean_store"]
    /\ UNCHANGED <<api_keys, usage_stats, disabled_keys, failure_counts, last_used,
                   now, ticks, calls, last, task_key>>

\* stats[window] = <the new list>; then the next window, or return
CleanStore(t) ==
    /\ pc[t] = "clean_store"
    /\ LET w == run[t].window
       IN  /\ usage_stats' = [usage_stats EXCEPT ![task_key[t]][Windows[w]] = run[t].filtered]
           /\ pc' = [pc EXCEPT ![t] = IF w < Len(Windows) THEN "clean_filter" ELSE "idle"]
           /\ run' = [run EXCEPT ![t] =
                        IF w < Len(Windows)
                        THEN [@ EXCEPT !.window = w + 1, !.filtered = <<>>]
                        ELSE [NoThread EXCEPT !.recorded = run[t].recorded]]
    /\ UNCHANGED <<api_keys, disabled_keys, failure_counts, last_used,
                   now, ticks, calls, last, task_key>>

\* record_successful_request is entered: current_time = time.time()
RecordEnter(t) ==
    /\ pc[t] = "idle"
    /\ calls < MaxCallsThreads
    /\ calls' = calls + 1
    /\ pc' = [pc EXCEPT ![t] = "record_append"]
    /\ run' = [run EXCEPT ![t].window = 1, ![t].current_time = now]
    /\ UNCHANGED <<api_keys, usage_stats, disabled_keys, failure_counts, last_used,
                   now, ticks, last, task_key>>

\* stats[window].append(current_time), on the list the dict holds now
RecordAppend(t) ==
    /\ pc[t] = "record_append"
    /\ LET w == run[t].window
       IN  /\ usage_stats' = [usage_stats EXCEPT ![task_key[t]][Windows[w]] =
                                 Append(@, run[t].current_time)]
           /\ pc' = [pc EXCEPT ![t] =
                        IF w < Len(Windows) THEN "record_append" ELSE "record_load_total"]
           /\ run' = [run EXCEPT ![t].window = IF w < Len(Windows) THEN w + 1 ELSE 1]
    /\ UNCHANGED <<api_keys, disabled_keys, failure_counts, last_used,
                   now, ticks, calls, last, task_key>>

\* stats['total_requests'] += 1 reads the total
RecordLoadTotal(t) ==
    /\ pc[t] = "record_load_total"
    /\ run' = [run EXCEPT ![t].total = usage_stats[task_key[t]].total_requests]
    /\ pc' = [pc EXCEPT ![t] = "record_store_total"]
    /\ UNCHANGED <<api_keys, usage_stats, disabled_keys, failure_counts, last_used,
                   now, ticks, calls, last, task_key>>

\* and stores the total it read plus one; last_used and failure_counts are
\* plain stores, and the call returns
RecordStoreTotal(t) ==
    /\ pc[t] = "record_store_total"
    /\ usage_stats' = [usage_stats EXCEPT ![task_key[t]].total_requests = run[t].total + 1]
    /\ last_used' = DictSet(last_used, task_key[t], run[t].current_time)
    /\ failure_counts' = FailuresAfterSuccess(failure_counts, task_key[t])
    /\ run' = [run EXCEPT ![t] =
                 [NoThread EXCEPT !.recorded = Append(run[t].recorded, run[t].current_time)]]
    /\ pc' = [pc EXCEPT ![t] = "idle"]
    /\ UNCHANGED <<api_keys, disabled_keys, now, ticks, calls, last, task_key>>

NextThreads ==
    \/ \E d \in Deltas : ticks < MaxTicks /\ Tick(d)
    \/ \E t \in Tasks : CleanEnter(t)
    \/ \E t \in Tasks : CleanFilter(t)
    \/ \E t \in Tasks : CleanStore(t)
    \/ \E t \in Tasks : RecordEnter(t)
    \/ \E t \in Tasks : RecordAppend(t)
    \/ \E t \in Tasks : RecordLoadTotal(t)
    \/ \E t \in Tasks : RecordStoreTotal(t)

SpecThreads == InitThreads /\ [][NextThreads]_vars

-----------------------------------------------------------------------------
(* What the claims speak of, stated on the pool's state without the        *)
(* operators of the model above.                                           *)

ConfigOf(k) == api_keys[CHOOSE i \in 1..Len(api_keys) : api_keys[i].api_key = k]

IndexOf(k) == CHOOSE i \in 1..Len(api_keys) : api_keys[i].api_key = k

\* the hits of a window that are younger than its horizon at the time `now`
HitsWithin(s, horizon) == Cardinality({i \in 1..Len(s) : now - s[i] < horizon})

MinuteCount(k) == HitsWithin(usage_stats[k].requests_this_minute, MinuteHorizon)

HourCount(k) == HitsWithin(usage_stats[k].requests_this_hour, HourHorizon)

DayCount(k) == HitsWithin(usage_stats[k].requests_this_day, DayHorizon)

CooledDown(k) == k \notin DOMAIN disabled_keys \/ now >= disabled_keys[k]

UnderQuota(k) ==
    /\ MinuteCount(k) < ConfigOf(k).max_requests_per_minute
    /\ HourCount(k) < ConfigOf(k).max_requests_per_hour
    /\ DayCount(k) < ConfigOf(k).max_requests_per_day

\* is_available of the specification, section 4.2
Eligible(k) == ConfigOf(k).enabled /\ CooledDown(k) /\ UnderQuota(k)

EligibleKeys == {k \in KeyIds : Eligible(k)}

\* score of the specification, section 4.2, in 1/3600 points
ClaimScore(k) ==
    ConfigOf(k).priority * SecondsPerHour
    + (IF last_used[k] = NoneTime
       THEN MaxIdleBonus * SecondsPerHour
       ELSE Min(now - last_used[k], MaxIdleBonus * SecondsPerHour))
    - FailurePenalty * SecondsPerHour * failure_counts[k]

\* k comes before j when the eligible keys are sorted by score, descending,
\* ties in configuration order
RanksBefore(k, j) ==
    \/ ClaimScore(k) > ClaimScore(j)
    \/ ClaimScore(k) = ClaimScore(j) /\ IndexOf(k) < IndexOf(j)

RankOf(k) == 1 + Cardinality({j \in EligibleKeys : RanksBefore(j, k)})

Selected == last.op = "select"

-----------------------------------------------------------------------------
\* C1: the credential select returns is enabled, is not in cooldown and has
\* its minute, hour and day counts strictly below the configured limits; so a
\* credential reported available has each count at most its limit.
C1_SelectedIsAvailable ==
    (Selected /\ last.result \in KeyIds) =>
        LET k == last.result
        IN  /\ ConfigOf(k).enabled
            /\ CooledDown(k)
            /\ UnderQuota(k)
            /\ MinuteCount(k) <= ConfigOf(k).max_requests_per_minute
            /\ HourCount(k) <= ConfigOf(k).max_requests_per_hour
            /\ DayCount(k) <= ConfigOf(k).max_requests_per_day

\* select returned a key that has hits in its minute window while another
\* key of the pool was not eligible
C1_Witness ==
    /\ Selected
    /\ last.result \in KeyIds
    /\ MinuteCount(last.result) >= 1
    /\ \E j \in KeyIds : ~Eligible(j)

\* C2: for every interleaving of tasks that select a credential, run the
\* work and record the success, the hits of a credential inside its minute,
\* hour and day window never exceed its limits.
C2_QuotaNeverExceeded ==
    \A k \in KeyIds :
        /\ MinuteCount(k) <= ConfigOf(k).max_requests_per_minute
        /\ HourCount(k) <= ConfigOf(k).max_requests_per_hour
        /\ DayCount(k) <= ConfigOf(k).max_requests_per_day

\* C3: a credential with per_minute successes inside the last 60 seconds is
\* not returned by select (and a pool of that one credential returns
\* nothing); once those hits have left the window, and the key is enabled,
\* out of cooldown and under its hour and day limits, select returns it again
\* when it is the only credential that can be returned.
C3_ExhaustionAndRecovery ==
    Selected =>
        \A k \in KeyIds :
            /\ MinuteCount(k) >= ConfigOf(k).max_requests_per_minute =>
                  /\ last.result # k
                  /\ (KeyIds = {k} => last.result = "None")
            /\ ( /\ usage_stats[k].total_requests >= ConfigOf(k).max_requests_per_minute
                 /\ EligibleKeys = {k} )
               => last.result = k

\* Scenario A: the one credential with per_minute = 5 has had its five
\* successes, they are a minute or more old, and select returned it
C3_Witness ==
    /\ api_keys = ConfigSingle
    /\ Selected
    /\ last.result = "A"
    /\ usage_stats["A"].total_requests = 5
    /\ now - last_used["A"] >= MinuteHorizon
    /\ MinuteCount("A") = 0

C4_Step ==
    \A k \in KeyIds :
        \* record_rate_limited at `now` sets the deadline now + 60
        /\ (last'.op = "record_rate_limited" /\ last'.arg = k) =>
              (k \in DOMAIN disabled_keys' /\ disabled_keys'[k] = now + DisableDuration)
        \* before the deadline no call removes it or moves it back, and no
        \* select returns the key
        /\ (k \in DOMAIN disabled_keys /\ now' < disabled_keys[k]) =>
              /\ k \in DOMAIN disabled_keys'
              /\ disabled_keys'[k] >= disabled_keys[k]
              /\ ~(last'.op = "select" /\ last'.result = k)
        \* from the deadline on, a select finds the key eligible again if it
        \* is enabled and under quota
        /\ ( /\ last'.op = "select"
             /\ k \in DOMAIN disabled_keys
             /\ now >= disabled_keys[k]
             /\ ConfigOf(k).enabled
             /\ UnderQuota(k) )
           => /\ k \notin DOMAIN disabled_keys'
              /\ k \in last'.cleared
              /\ last'.result # "None"
              /\ (EligibleKeys = {k} /\ last_used[k] # NoneTime) => last'.result = k

\* C4: after record_rate_limited on a credential at time T no select before
\* T + 60 returns it, whatever is called in between; from T + 60 on (so at
\* T + 61) it is eligible again if it is enabled and under its three quotas.
C4_CooldownExclusionAndRecovery == [][C4_Step]_vars

\* a select made at or after the deadline cleared the cooldown of a key and
\* returned that key
C4_Witness ==
    /\ Selected
    /\ last.result \in last.cleared

\* C5: select never raises: it returns nothing when no credential is
\* eligible and a credential when one is, in every reachable pool state.
C5_SelectNeverRaises ==
    Selected =>
        /\ last.result # "TypeError"
        /\ (EligibleKeys = {} => last.result = "None")
        /\ (EligibleKeys # {} => last.result \in KeyIds)

\* C6: the score of an available credential is priority + min((now -
\* last_used) / 3600, 10) - 2 * failure_count, with the bonus 10 for a
\* credential that was never used.
C6_ScoreFormula ==
    \A k \in EligibleKeys :
        CalculateKeyScore(ConfigOf(k), last_used, failure_counts, now)
            = [raised |-> FALSE, score |-> ClaimScore(k)]

\* C7: in deterministic mode select returns the eligible credential with the
\* highest score, the first in configuration order among equals.
C7_DeterministicBest ==
    (Selected /\ last.arg = "deterministic" /\ EligibleKeys # {}) =>
        /\ last.result \in EligibleKeys
        /\ RankOf(last.result) = 1

\* C8: in weighted-random mode select returns one of the three eligible
\* credentials with the highest scores, and the only eligible credential when
\* there is just one.
C8_RandomAmongTopThree ==
    (Selected /\ last.arg = "random" /\ EligibleKeys # {}) =>
        /\ last.result \in EligibleKeys
        /\ RankOf(last.result) <= TopKeys

\* C9: record_success appends now to the minute, hour and day sequences of
\* the credential, sets last_used to now and failure_count to 0, and leaves
\* disabled_until as it was.
C9_RecordSuccessEffect ==
    last.op = "record_success" =>
        LET k == last.arg
            before == last.pre
            after == KeyState(usage_stats, disabled_keys, failure_counts, last_used, k)
        IN  /\ after.stats.requests_this_minute = Append(before.stats.requests_this_minute, now)
            /\ after.stats.requests_this_hour = Append(before.stats.requests_this_hour, now)
            /\ after.stats.requests_this_day = Append(before.stats.requests_this_day, now)
            /\ Len(after.stats.requests_this_minute) = Len(before.stats.requests_this_minute) + 1
            /\ Len(after.stats.requests_this_hour) = Len(before.stats.requests_this_hour) + 1
            /\ Len(after.stats.requests_this_day) = Len(before.stats.requests_this_day) + 1
            /\ after.last_used = now
            /\ after.failure_count = 0
            /\ after.disabled = before.disabled

\* a success recorded on a key that had failures and a cooldown
C9_Witness ==
    /\ last.op = "record_success"
    /\ last.pre.failure_count > 0
    /\ last.pre.disabled # <<>>
    /\ failure_counts[last.arg] = 0

\* C10: record_rate_limited sets disabled_until to now + 60 and leaves the
\* failure count, last_used and the three usage sequences as they were; a
\* second signal during a cooldown moves disabled_until to the later now + 60.
C10_RecordRateLimitedEffect ==
    last.op = "record_rate_limited" =>
        LET k == last.arg
            before == last.pre
            after == KeyState(usage_stats, disabled_keys, failure_counts, last_used, k)
        IN  /\ after.disabled = <<now + DisableDuration>>
            /\ after.failure_count = before.failure_count
            /\ after.last_used = before.last_used
            /\ after.stats = before.stats
            /\ (before.disabled # <<>> /\ now < before.disabled[1]) =>
                  after.disabled[1] >= before.disabled[1]

\* a second rate-limit signal, later and still inside the cooldown, on a key
\* that has hits and failures
C10_Witness ==
    /\ last.op = "record_rate_limited"
    /\ last.pre.disabled # <<>>
    /\ now < last.pre.disabled[1]
    /\ disabled_keys[last.arg] > last.pre.disabled[1]

-----------------------------------------------------------------------------
(* What the claims about a unit of work speak of *)

\* the configured number of attempts: 3 with a pool, 1 without
ClaimMaxAttempts(r) == IF r.manager THEN 3 ELSE 1

\* the key the last invocation of the work ran with, and what the work did
LastKey(r) == r.keys[r.works]

LastOutcome(r) == r.plan[r.works]

Terminal == {"done", "raised", "cancelled"}

PoolUntouched ==
    UNCHANGED <<usage_stats, disabled_keys, failure_counts, last_used, calls, last>>

\* the categories whose keywords a text contains, whatever the case
ClaimMentions(text) ==
    CASE text = "Rate limit exceeded" -> {"rate_limited"}
      [] text = "401 Unauthorized" -> {"auth_error"}
      [] text = "Connection timeout" -> {"connection_error"}
      [] text = "Internal error" -> {}
      [] text = "Quota exceeded: invalid API key" -> {"rate_limited", "auth_error"}
      [] text = "Unauthorized: connection refused" -> {"auth_error", "connection_error"}
      [] text = "Timeout: too many requests" -> {"connection_error", "rate_limited"}

\* the earliest category in the fixed order
ClaimCategory(text) ==
    LET order == <<"rate_limited", "auth_error", "connection_error">>
        hits == {i \in 1..Len(order) : order[i] \in ClaimMentions(text)}
    IN  IF hits = {} THEN "unknown_error"
        ELSE order[CHOOSE i \in hits : \A j \in hits : i <= j]

\* the same steps, with the task always getting on
SpecThinkLive == InitTasks /\ [][NextThink]_vars /\ WF_vars(NextThink)

-----------------------------------------------------------------------------
\* C11: record_failure adds exactly 1 to the failure count of the credential
\* for every kind (auth, connection, unknown) and changes nothing else: it
\* sets no disabled_until and leaves the usage sequences and last_used alone.
C11_RecordFailureEffect ==
    last.op = "record_failure" =>
        LET k == last.arg
            before == last.pre
            after == KeyState(usage_stats, disabled_keys, failure_counts, last_used, k)
        IN  /\ last.error_type \in ErrorTypes
            /\ \A kind \in ErrorTypes :
                  last.error_type = kind =>
                      /\ after.failure_count = before.failure_count + 1
                      /\ after.disabled = before.disabled
                      /\ after.stats = before.stats
                      /\ after.last_used = before.last_used

\* an authentication failure recorded on a key that already had a failure
\* and is not disabled afterwards
C11_Witness ==
    /\ last.op = "record_failure"
    /\ last.error_type = "auth_error"
    /\ last.pre.failure_count >= 1
    /\ last.arg \notin DOMAIN disabled_keys

C12_Step ==
    \A t \in Tasks :
        (pc[t] = "idle" /\ pc'[t] # "idle" /\ EligibleKeys = {}) =>
            /\ last'.result = "None"
            /\ run'[t].outcome = "no_keys"
            /\ pc'[t] = "done"

\* C12: when no credential is eligible at the start of a unit of work, select
\* returns nothing and the unit ends with the no-credential outcome, the work
\* not invoked once.
C12_NoCredentialNoWork ==
    /\ [][C12_Step]_vars
    /\ [](\A t \in Tasks : run[t].outcome = "no_keys" => run[t].works = 0)

C13_Bound ==
    \A t \in Tasks :
        run[t].entry = "create" =>
            /\ run[t].works <= ClaimMaxAttempts(run[t])
            /\ run[t].attempt < ClaimMaxAttempts(run[t])
            /\ run[t].outcome \in {"running", "returned", "raised", "cancelled"}
            /\ run[t].outcome = "returned" =>
                  (run[t].works >= 1 /\ LastOutcome(run[t]) = "ok")

\* C13: one run of think invokes the work at most 3 times with a pool and at
\* most once without, and it ends: it returns after a successful attempt or
\* it raises.
C13_BoundedAndTerminates ==
    /\ []C13_Bound
    /\ (run[Runner].entry = "create") ~> (run[Runner].outcome # "running")

\* a run with a pool that invoked the work three times and then ended
C13_Witness ==
    /\ run[Runner].entry = "create"
    /\ run[Runner].manager
    /\ run[Runner].works = 3
    /\ run[Runner].outcome # "running"

C14_Step ==
    \A k \in KeyIds :
        LET hit == usage_stats'[k].total_requests # usage_stats[k].total_requests
            returns(t) == run[t].outcome = "running" /\ run'[t].outcome = "returned"
        IN  /\ hit =>
                /\ usage_stats'[k].total_requests = usage_stats[k].total_requests + 1
                /\ \E t \in Tasks :
                      /\ returns(t)
                      /\ run'[t].works >= 1
                      /\ LastKey(run'[t]) = k
                      /\ LastOutcome(run'[t]) = "ok"
            /\ \A t \in Tasks :
                  (returns(t) /\ run'[t].works >= 1 /\ LastKey(run'[t]) = k) => hit

\* C14: a hit is recorded on a credential only in the step in which a unit of
\* work returns the result of a successful invocation made with that
\* credential, one hit per successful unit; none before the work has run and
\* none when it fails.
C14_SuccessOnlyAfterWork == [][C14_Step]_vars

\* C15: the failed attempt is classified rate_limited, then auth_error, then
\* connection_error, else unknown_error, the earliest category its message
\* matches; one pool call follows it, on the key that failed:
\* record_rate_limited for rate_limited, record_failure with the category
\* otherwise.
C15_ClassifiedAndRecorded ==
    \A t \in Tasks :
        (run[t].manager /\ pc[t] \in {"rotating", "exhausted"}) =>
            LET category == ClaimCategory(run[t].error)
            IN  /\ last.arg = LastKey(run[t])
                /\ IF category = "rate_limited"
                   THEN last.op = "record_rate_limited"
                   ELSE last.op = "record_failure" /\ last.error_type = category
                /\ calls = run[t].works

\* a message that names a timeout and too many requests was recorded as a
\* rate limit
C15_Witness ==
    /\ pc[Runner] = "rotating"
    /\ run[Runner].error = "Timeout: too many requests"
    /\ last.op = "record_rate_limited"
    /\ last.arg = task_key[Runner]

C16_Step ==
    \A t \in Tasks :
        \* the select after a failed attempt with attempts remaining
        /\ (pc[t] = "rotating" /\ pc'[t] # "rotating") =>
              IF last'.result \notin {"None", "TypeError", task_key[t]}
              THEN /\ task_key'[t] = last'.result
                   /\ run'[t].sleeps = run[t].sleeps + 1
                   /\ run'[t].works = run[t].works
                   /\ pc'[t] = "sleeping"
              ELSE /\ run'[t].sleeps = run[t].sleeps
                   /\ task_key'[t] = task_key[t]
        \* no other step waits
        /\ run'[t].sleeps # run[t].sleeps =>
              /\ pc[t] = "rotating"
              /\ run[t].attempt < ClaimMaxAttempts(run[t]) - 1
              /\ LastOutcome(run[t]) \in ErrorTexts
        \* after the wait the work is invoked, with the current key
        /\ (pc[t] = "sleeping" /\ pc'[t] # "sleeping") =>
              (pc'[t] = "thinking" /\ task_key'[t] = task_key[t])
        /\ run'[t].works = run[t].works + 1 => LastKey(run'[t]) = task_key[t]

\* C16: after a failed attempt with attempts remaining, a select that returns
\* a credential other than the failed one makes it the current one and is
\* followed by exactly one backoff wait, and the next invocation of the work
\* uses it; no other step waits.
C16_RotationAndBackoff == [][C16_Step]_vars

\* the second invocation ran with another key than the first, after one wait
C16_Witness ==
    /\ run[Runner].works = 2
    /\ run[Runner].sleeps = 1
    /\ run[Runner].keys[2] # run[Runner].keys[1]
    /\ run[Runner].keys[2] = task_key[Runner]

\* C17: Scenario D.  Two credentials are available, the work fails with a
\* rate-limit error at its first invocation and succeeds at its second: the
\* run returns the result after exactly 2 invocations, the credential of the
\* first is disabled, the other one has the one recorded success.
C17_ScenarioD ==
    \A t \in Tasks :
        ( /\ run[t].entry = "create"
          /\ run[t].plan = <<"Rate limit exceeded", "ok", "ok">>
          /\ Cardinality(run[t].available) = 2
          /\ pc[t] \in Terminal ) =>
            /\ run[t].outcome = "returned"
            /\ run[t].works = 2
            /\ run[t].keys[1] # run[t].keys[2]
            /\ run[t].keys[1] \in DOMAIN disabled_keys
            /\ calls = 2
            /\ last.op = "record_success"
            /\ last.arg = run[t].keys[2]
            /\ usage_stats[last.arg].total_requests = last.pre.stats.total_requests + 1

C18_Step ==
    \A t \in Tasks :
        (pc[t] = "rotating" /\ pc'[t] # "rotating" /\ last'.result \in {"None", task_key[t]}) =>
            /\ run'[t].sleeps = run[t].sleeps
            /\ pc'[t] = "exhausted"

\* C18: when the select after a failed attempt returns nothing or the
\* credential that just failed, there is no wait and the work is not invoked
\* again with that credential: the run goes to its exhausted end.
C18_NoRetryWithFailedKey ==
    /\ [][C18_Step]_vars
    /\ [](\A t \in Tasks : \A i \in 1..(run[t].works - 1) :
              run[t].keys[i + 1] # run[t].keys[i])

\* C19: when the last allowed attempt fails, think raises the error of that
\* invocation of the work, and no run returns a result after its last
\* attempt failed.
C19_RaisesLastError ==
    \A t \in Tasks :
        (run[t].entry = "create" /\ run[t].works >= 1) =>
            /\ ( /\ run[t].outcome = "raised"
                 /\ run[t].attempt = ClaimMaxAttempts(run[t]) - 1
                 /\ LastOutcome(run[t]) \in ErrorTexts )
               => run[t].raised = LastOutcome(run[t])
            /\ run[t].outcome = "returned" => LastOutcome(run[t]) = "ok"

C20_Step ==
    \A t \in Tasks :
        \* the invocation that is cancelled
        /\ (run'[t].works = run[t].works + 1 /\ LastOutcome(run'[t]) = "cancelled") =>
              /\ run'[t].outcome = "cancelled"
              /\ run'[t].raised = "CancelledError"
              /\ pc'[t] = "cancelled"
              /\ PoolUntouched
        \* nothing follows it
        /\ run[t].outcome = "cancelled" =>
              (run'[t] = run[t] /\ pc'[t] = pc[t] /\ PoolUntouched)

\* C20: when the invocation of the work is cancelled, nothing is recorded on
\* the pool, no further attempt and no further select is made, and the
\* cancellation goes to the caller.
C20_CancellationPropagates == [][C20_Step]_vars

\* the second invocation of a run with a pool was cancelled, after a failure
\* that was recorded
C20_Witness ==
    /\ pc[Runner] = "cancelled"
    /\ run[Runner].entry = "create"
    /\ run[Runner].manager
    /\ run[Runner].works = 2
    /\ run[Runner].raised = "CancelledError"
    /\ calls = 1

-----------------------------------------------------------------------------
\* the timestamps of a window that are younger than its horizon at `now`
StillInside(s, horizon) == SelectSeq(s, LAMBDA x : now - x < horizon)

\* C21: a status call made again at the same time, with no pool operation in
\* between, returns the same minute, hour and day counts, the same failure
\* count and the same availability for every credential as the call before.
C21_StatusIdempotent ==
    last.op = "status" =>
        LET again == KeysStatus(usage_stats, disabled_keys, now)
        IN  \A i \in 1..Len(api_keys) :
                /\ again[i].requests_this_minute = last.status[i].requests_this_minute
                /\ again[i].requests_this_hour = last.status[i].requests_this_hour
                /\ again[i].requests_this_day = last.status[i].requests_this_day
                /\ again[i].failure_count = last.status[i].failure_count
                /\ again[i].is_available = last.status[i].is_available

\* a status call that deleted an expired cooldown and reported a count
\* smaller than the lifetime total
C21_Witness ==
    /\ last.op = "status"
    /\ last.cleared # {}
    /\ \E i \in 1..Len(api_keys) :
           /\ last.status[i].is_available
           /\ last.status[i].name \in last.cleared
           /\ last.status[i].requests_this_minute < last.status[i].total_requests

C22_Step ==
    last'.op = "status" =>
        /\ failure_counts' = failure_counts
        /\ last_used' = last_used
        /\ now' = now
        /\ api_keys' = api_keys
        /\ DOMAIN disabled_keys' \subseteq DOMAIN disabled_keys
        /\ \A k \in KeyIds :
              /\ usage_stats'[k].total_requests = usage_stats[k].total_requests
              /\ usage_stats'[k].requests_this_minute
                     = StillInside(usage_stats[k].requests_this_minute, MinuteHorizon)
              /\ usage_stats'[k].requests_this_hour
                     = StillInside(usage_stats[k].requests_this_hour, HourHorizon)
              /\ usage_stats'[k].requests_this_day
                     = StillInside(usage_stats[k].requests_this_day, DayHorizon)
              /\ (k \in DOMAIN disabled_keys /\ now < disabled_keys[k]) =>
                     (k \in DOMAIN disabled_keys' /\ disabled_keys'[k] = disabled_keys[k])
        \* where the call wrote nothing the two selects see the same pool
        /\ \/ (usage_stats' = usage_stats /\ disabled_keys' = disabled_keys)
           \/ \A use_random \in BOOLEAN :
                 SelectResults(use_random,
                               AvailableKeys(api_keys, disabled_keys', usage_stats', now),
                               last_used', failure_counts', now)
                     = SelectResults(use_random,
                                     AvailableKeys(api_keys, disabled_keys, usage_stats, now),
                                     last_used, failure_counts, now)

\* C22: a status call leaves the failure counts, the last-used times, the
\* lifetime totals, every timestamp inside its horizon and every cooldown
\* that has not expired as they were, drops only window entries older than
\* their horizon, and a select made after it gives what a select made
\* instead of it would have given.
C22_StatusFrame == [][C22_Step]_vars

\* a status call that dropped an old window entry while another key was in a
\* cooldown that has not expired
C22_Witness ==
    /\ last.op = "status"
    /\ \E k \in DOMAIN disabled_keys : now < disabled_keys[k]
    /\ \E i \in 1..Len(api_keys) :
           last.status[i].requests_this_minute < last.status[i].total_requests

\* C23: the availability status reports for a credential is the is_available
\* of select: true exactly when the credential is enabled, not in cooldown
\* and under its three limits.
C23_StatusAvailabilityIsEligibility ==
    last.op = "status" =>
        \A i \in 1..Len(api_keys) :
            last.status[i].is_available = Eligible(api_keys[i].api_key)

\* C26: after a status call or a select that returned, no credential of the
\* pool, enabled or not, is left with a cooldown whose end is not in the
\* future.
C26_ExpiredCooldownCleared ==
    (last.op = "status" \/ (last.op = "select" /\ last.result # "TypeError")) =>
        \A k \in KeyIds : k \in DOMAIN disabled_keys => now < disabled_keys[k]

C29_Step ==
    \A k \in KeyIds :
        failure_counts'[k] =
            IF last'.op = "record_failure" /\ last'.arg = k
            THEN failure_counts[k] + 1
            ELSE IF last'.op = "record_success" /\ last'.arg = k
                 THEN 0
                 ELSE failure_counts[k]

\* C29: the failure count of a credential is never negative, starts at 0,
\* grows by one with each record_failure on the credential, returns to 0
\* with each record_success on it, and is changed by nothing else; so it is
\* the number of failures recorded since the last success.
C29_FailureCountSinceSuccess ==
    /\ \A k \in KeyIds : failure_counts[k] = 0
    /\ [](\A k \in KeyIds : failure_counts[k] >= 0)
    /\ [][C29_Step]_vars

\* two failures recorded on a key after a success on it
C29_Witness ==
    /\ last.op = "record_failure"
    /\ last.pre.failure_count = 1
    /\ last.pre.stats.total_requests >= 1
    /\ failure_counts[last.arg] = 2

C27_Step ==
    \A t \in Tasks :
        ( /\ run'[t].entry = "create"
          /\ run'[t].manager
          /\ run'[t].works = run[t].works + 1 ) =>
            LET k == LastKey(run'[t])
            IN  k \notin DOMAIN disabled_keys \/ now >= disabled_keys[k]

\* C27: a run with a pool never invokes the work with a credential that is
\* in cooldown at that moment, and after an invocation failed with a
\* rate-limit error no later invocation of the run uses the credential of
\* that invocation.
C27_NoWorkInCooldown ==
    /\ [][C27_Step]_vars
    /\ [](\A t \in Tasks :
              (run[t].entry = "create" /\ run[t].manager) =>
                  \A i \in 1..run[t].works : \A j \in (i + 1)..run[t].works :
                      ( /\ run[t].plan[i] \in ErrorTexts
                        /\ ClaimCategory(run[t].plan[i]) = "rate_limited" )
                      => run[t].keys[j] # run[t].keys[i])

\* C30: when think has returned a result, or has raised after its last
\* attempt failed, next_step_prompt is what it was when think was entered,
\* whether or not the browser prompt had replaced it.
C30_PromptRestored ==
    \A t \in Tasks :
        ( /\ run[t].entry = "create"
          /\ run[t].works >= 1
          /\ \/ run[t].outcome = "returned"
             \/ /\ run[t].outcome = "raised"
                /\ run[t].attempt = ClaimMaxAttempts(run[t]) - 1
                /\ LastOutcome(run[t]) \in ErrorTexts )
        => run[t].next_step_prompt = OriginalPrompt

\* C24: no pool has two entries with the same credential id.
C24_OneRecordPerId ==
    \A i, j \in 1..Len(api_keys) :
        api_keys[i].api_key = api_keys[j].api_key => i = j

\* C25: a record_* call with an id the pool does not have ends with an error,
\* and no last-used time, failure count or cooldown exists for an id that is
\* not a credential of the pool.
C25_UnknownIdRejected ==
    /\ ( /\ last.op \in {"record_success", "record_rate_limited", "record_failure"}
         /\ last.arg \notin KeyIds )
       => last.result = "error"
    /\ DOMAIN last_used \subseteq KeyIds
    /\ DOMAIN failure_counts \subseteq KeyIds
    /\ DOMAIN disabled_keys \subseteq KeyIds

\* the record_success calls that have completed, over all threads
RecordedTimes(t1, t2) == run[t1].recorded \o run[t2].recorded

\* C28: at every moment each window holds at least the completed
\* record_success calls whose time is inside its horizon, and when no call
\* is in progress it holds exactly those and the lifetime total is the number
\* of completed record_success calls.
C28_NoHitLost ==
    LET done == RecordedTimes("t1", "t2")
        k == ConfigSingle[1].api_key
        quiet == \A t \in Tasks : pc[t] = "idle"
    IN  /\ \A w \in 1..Len(Windows) :
              /\ HitsWithin(usage_stats[k][Windows[w]], Horizons[w])
                     >= HitsWithin(done, Horizons[w])
              /\ quiet => HitsWithin(usage_stats[k][Windows[w]], Horizons[w])
                              = HitsWithin(done, Horizons[w])
        /\ quiet => usage_stats[k].total_requests = Len(done)

====
